---- MODULE Spec2Model ----
(***************************************************************************)
(* Model of the onboarding stepper of VoidOnboarding.tsx: the stepper      *)
(* state of VoidOnboardingContent (pageIndex, stepperType), the local      *)
(* state of the screen mounted under the key `${stepperType}-${pageIndex}`,*)
(* the pending 1500 ms submission timers, and the isOnboardingComplete     *)
(* flag of the settings service.                                           *)
(***************************************************************************)
EXTENDS Integers, Sequences, FiniteSets, TLC

VARIABLES
    isOnboardingComplete,  \* voidSettingsState.globalSettings.isOnboardingComplete
    pageIndex,             \* useState(0)
    stepperType,           \* useState<StepperFlowType>('signIn')
    isSubmitting,          \* form pages: useState(false)
    otp,                   \* OTPPasswordPage: useState('')
    error,                 \* CreatePasswordPage: useState('')
    showPassword,          \* LoginPage / CreatePasswordPage: useState(false)
    showConfirmPassword,   \* CreatePasswordPage: useState(false)
    wantToUseOption,             \* useState<WantToUseOption>('smart')
    selectedIntelligentProvider, \* useState<ProviderName>('anthropic')
    selectedPrivateProvider,     \* useState<ProviderName>('ollama')
    selectedAffordableProvider,  \* useState<ProviderName>('gemini')
    selectedAllProvider,         \* useState<ProviderName>('anthropic')
    currentTab,            \* AddProvidersPage: useState<TabName>('Free')
    errorMessage,          \* AddProvidersPage: useState<string | null>(null)
    errorTimeout,          \* AddProvidersPage: the 5000 ms timeout of its effect is pending
    chatDisabled,          \* isFeatureNameDisabled('Chat', settingsState)
    addProvidersMounted,   \* an AddProvidersPage is mounted
    typed,                 \* older version: the text in the first input of the screen
    timers,                \* pending setTimeout(resolve, 1500) of submitForm, oldest first
    last                   \* the handler that ran last and the calls it made

stepper == <<pageIndex, stepperType>>
localState == <<isSubmitting, otp, error, showPassword, showConfirmPassword>>
providerState == <<wantToUseOption, selectedIntelligentProvider, selectedPrivateProvider,
                   selectedAffordableProvider, selectedAllProvider>>
addProvidersState == <<currentTab, errorMessage, errorTimeout, chatDisabled,
                       addProvidersMounted>>
vars == <<isOnboardingComplete, pageIndex, stepperType, isSubmitting, otp, error,
          showPassword, showConfirmPassword, wantToUseOption,
          selectedIntelligentProvider, selectedPrivateProvider,
          selectedAffordableProvider, selectedAllProvider, currentTab, errorMessage,
          errorTimeout, chatDisabled, addProvidersMounted, typed, timers, last>>

----------------------------------------------------------------------------
(* Bounds of the model *)

\* pending submission timers the model follows at once
MaxTimers == 2

(* Program constants *)

\* OTPInput minLength / maxLength and the length tested by the effect
OtpLength == 6
\* minLength of the password inputs
MinPasswordLength == 8

----------------------------------------------------------------------------
(* Form inputs, as sequences of characters *)

UpperChars == {"A"}
LowerChars == {"b"}

Names == { <<>>, <<"A">>, <<"A", "b">>, <<"b", "A">>, <<"A", "1">> }

Emails == { <<>>, <<"b">>, <<"b", "@">>, <<"@", "b">>, <<"b", "@", "b">> }

Passwords == { <<>>,
               <<"b", "b", "b">>,
               <<"b", "b", "b", "b", "b", "b", "b">>,
               <<"b", "b", "b", "b", "b", "b", "b", "1">>,
               <<"A", "b", "b", "b", "b", "b", "b", "b", "1">> }

OtpChars == {"1"}

RECURSIVE SeqsUpTo(_, _)
SeqsUpTo(S, n) ==
    IF n = 0 THEN { <<>> }
    ELSE LET shorter == SeqsUpTo(S, n - 1)
         IN  shorter \cup { Append(s, c) : s \in { t \in shorter : Len(t) = n - 1 }, c \in S }

\* the values OTPInput can hand to onChange: at most maxLength characters
OtpValues == SeqsUpTo(OtpChars, OtpLength)

\* <input required>
Required(v) == Len(v) > 0

\* <input minLength={8}>
MinLengthOk(v) == Len(v) >= MinPasswordLength

\* namePattern = "^[A-Z][a-zA-Z]*$"
MatchesNamePattern(v) ==
    /\ Len(v) >= 1
    /\ v[1] \in UpperChars
    /\ \A i \in 2..Len(v) : v[i] \in UpperChars \cup LowerChars

\* <input type="email">: a local part, one "@", a domain
IsEmail(v) ==
    \E i \in 2..(Len(v) - 1) :
        /\ v[i] = "@"
        /\ \A j \in 1..Len(v) : j # i => v[j] # "@"

----------------------------------------------------------------------------
(* The two stepper tables *)

Page(component, onSuccess, bottom) ==
    [component |-> component, onSuccess |-> onSuccess, bottom |-> bottom]

\* "no continuation" for the pages that take no onSuccess
NoTarget == -1

stepperFlowStartingPoint ==
    (0 :> Page("Welcome", NoTarget, "none")) @@
    (1 :> Page("LoginPage", NoTarget, "none"))

\* the terminal screen's buttons also under the email-code screen
signInStepperFlow_ButtonsAt5 ==
    stepperFlowStartingPoint @@
    (2 :> Page("ResetPasswordPage", 3, "prevButton")) @@
    (3 :> Page("OTPPasswordPage", 4, "prevButton")) @@
    (4 :> Page("CreatePasswordPage", 6, "prevButton")) @@
    (5 :> Page("OTPPasswordPage", 6, "lastPagePrevAndNextButtons")) @@
    (6 :> Page("LastStep", NoTarget, "lastPagePrevAndNextButtons"))

signInStepperFlow ==
    stepperFlowStartingPoint @@
    (2 :> Page("ResetPasswordPage", 3, "prevButton")) @@
    (3 :> Page("OTPPasswordPage", 4, "prevButton")) @@
    (4 :> Page("CreatePasswordPage", 6, "prevButton")) @@
    (5 :> Page("OTPPasswordPage", 6, "returnToSignInButton")) @@
    (6 :> Page("LastStep", NoTarget, "lastPagePrevAndNextButtons"))

\* the sign-up pages one slot further on, index 2 left empty
signUpStepperFlow_Shifted ==
    stepperFlowStartingPoint @@
    (3 :> Page("SignUpPage", 4, "prevButton")) @@
    (4 :> Page("CreatePasswordPage", 5, "prevButton")) @@
    (5 :> Page("LastStep", NoTarget, "lastPagePrevAndNextButtons"))

\* the sign-up terminal screen rendered without its bottom buttons
signUpStepperFlow_NoBottom ==
    stepperFlowStartingPoint @@
    (2 :> Page("SignUpPage", 3, "prevButton")) @@
    (3 :> Page("CreatePasswordPage", 4, "prevButton")) @@
    (4 :> Page("LastStep", NoTarget, "none"))

signUpStepperFlow ==
    stepperFlowStartingPoint @@
    (2 :> Page("SignUpPage", 3, "prevButton")) @@
    (3 :> Page("CreatePasswordPage", 4, "prevButton")) @@
    (4 :> Page("LastStep", NoTarget, "lastPagePrevAndNextButtons"))

Undefined == Page("undefined", NoTarget, "none")

\* the two branches of the conditional swapped
FlowTable_Swapped(flow) == IF flow = "signIn" THEN signUpStepperFlow ELSE signInStepperFlow

FlowTable(flow) == IF flow = "signIn" THEN signInStepperFlow ELSE signUpStepperFlow

\* stepperType === 'signIn' ? signInStepperFlow[pageIndex] : signUpStepperFlow[pageIndex]
Lookup(flow, idx) ==
    IF idx \in DOMAIN FlowTable(flow) THEN FlowTable(flow)[idx] ELSE Undefined

Rendered == Lookup(stepperType, pageIndex)

\* the two classes of the overlay swapped
Hidden_Swapped == ~isOnboardingComplete

\* the overlay of VoidOnboarding: opacity-0 pointer-events-none once
\* isOnboardingComplete || OVERRIDE_VALUE, and OVERRIDE_VALUE = false
Hidden == isOnboardingComplete
Active == ~Hidden

----------------------------------------------------------------------------
(* Rendering: the subtree is keyed on `${stepperType}-${pageIndex}` *)

Timer(component, onSuccess) ==
    [component |-> component, onSuccess |-> onSuccess, live |-> TRUE]

\* timers whose screen instance was unmounted keep running, without an instance
\* unmounting clears the timers of the screen
Orphan_Cleared(tm) == <<>>

Orphan(tm) == [i \in DOMAIN tm |-> [tm[i] EXCEPT !.live = FALSE]]

Local(sub, code, err, show, showConfirm) ==
    [isSubmitting |-> sub, otp |-> code, error |-> err,
     showPassword |-> show, showConfirmPassword |-> showConfirm]

\* the useState initial values of a freshly mounted screen
InitialLocal == Local(FALSE, <<>>, "", FALSE, FALSE)

\* submitForm without its setIsSubmitting(true)
Submitting_NoFlag(loc) == loc

\* setIsSubmitting(true)
Submitting(loc) == [loc EXCEPT !.isSubmitting = TRUE]

CurrentLocal == Local(isSubmitting, otp, error, showPassword, showConfirmPassword)

SetLocal(loc) ==
    /\ isSubmitting' = loc.isSubmitting
    /\ otp' = loc.otp
    /\ error' = loc.error
    /\ showPassword' = loc.showPassword
    /\ showConfirmPassword' = loc.showConfirmPassword

\* the key of the rendered subtree
Key(flow, idx) == <<flow, idx>>

\* commit of a handler's state updates: a changed key remounts the screen, so its
\* local state starts over and the timers it started lose their instance; with the
\* key unchanged the mounted instance takes the local state loc
Render_KeepLocal(flow, idx, tm, loc) ==
    /\ stepperType' = flow
    /\ pageIndex' = idx
    /\ SetLocal(loc) /\ timers' = tm

Render(flow, idx, tm, loc) ==
    /\ stepperType' = flow
    /\ pageIndex' = idx
    /\ IF Key(flow, idx) = Key(stepperType, pageIndex)
       THEN SetLocal(loc) /\ timers' = tm
       ELSE SetLocal(InitialLocal) /\ timers' = Orphan(tm)

\* setPageType without its increment
SetPageTypeIndex_Keep(idx) == idx

\* setPageIndex(pageIdx => pageIdx + 1) of setPageType
SetPageTypeIndex(idx) == idx + 1

\* prevButton wired as returnToSignInButton
PrevIndex_Home(idx) == 1

\* setPageIndex(idx => idx - 1) of prevButton
PrevIndex(idx) == idx - 1

----------------------------------------------------------------------------
(* The record of the last step *)

\* how far the run has followed the sign-in scenario: 'Login/Signup' on (signIn, 0),
\* a credential submission, the expiry of its timer on the same screen instance,
\* 'Enter the Evolv'; 0 once the run leaves it
ScenarioStep(name) ==
    IF name = "LoginSignup" /\ stepperType = "signIn" /\ pageIndex = 0 /\ timers = <<>>
    THEN 1
    ELSE IF name = "LoginSubmit" /\ last.scenario = 1 /\ timers = <<>> THEN 2
    ELSE IF name = "TimerFires" /\ last.scenario = 2 THEN 3
    ELSE IF name = "CompleteOnboarding" /\ last.scenario = 3 THEN 4
    ELSE 0

\* the flows whose terminal screen the run has shown so far
SeenTerminals ==
    last.seen \cup
        (IF ~isOnboardingComplete' /\ Lookup(stepperType', pageIndex').component = "LastStep"
         THEN {stepperType'} ELSE {})

\* the slot of the wrong category
getSelectedProvider_Private == selectedPrivateProvider

getSelectedProvider ==
    CASE wantToUseOption = "smart" -> selectedIntelligentProvider
      [] wantToUseOption = "private" -> selectedPrivateProvider
      [] wantToUseOption = "cheap" -> selectedAffordableProvider
      [] wantToUseOption = "all" -> selectedAllProvider

\* const selectedProviderName = getSelectedProvider()
selectedProviderName == getSelectedProvider

\* capture('Completed Onboarding', { selectedProviderName, wantToUseOption })
CompletedOnboardingEvent ==
    [event |-> "Completed Onboarding",
     selectedProviderName |-> selectedProviderName,
     wantToUseOption |-> wantToUseOption]

\* the events handed to voidMetricsService.capture, one for each call of it
Captured(calls) ==
    LET n == Cardinality({ i \in DOMAIN calls : calls[i] = "capture" })
    IN  [k \in 1..n |-> CompletedOnboardingEvent]

\* name: the handler; args: its inputs; calls: the continuations and services it
\* called, in order; captured: the metrics events it recorded; late: the handler
\* belonged to a screen that was unmounted; tracked: the place in timers of one
\* submission's timer, followed from its submit to its expiry (0: none is followed)
Track(name, calls) ==
    IF name = "TimerFires"
    THEN { IF last.tracked > 0 THEN last.tracked - 1 ELSE 0 }
    ELSE IF calls = <<"setTimeout">> /\ last.tracked = 0
         THEN { 0, Len(timers') }
         ELSE { last.tracked }

Log(name, args, calls, late) ==
    \E tr \in Track(name, calls) :
        last' = [op |-> name, args |-> args, calls |-> calls,
                 captured |-> Captured(calls), late |-> late,
                 scenario |-> ScenarioStep(name), seen |-> SeenTerminals,
                 tracked |-> tr]

----------------------------------------------------------------------------
(* AddProvidersPage *)

TabNames == { "Free", "Paid", "Local", "Cloud/Other" }

Null == "null"

ChatErrorMessage == "Please set up at least one Chat model before moving on."

----------------------------------------------------------------------------
(* Provider selection *)

WantToUseOptions == { "smart", "private", "cheap", "all" }

\* some of the ProviderName values this file names
ProviderNames == { "anthropic", "ollama", "gemini", "openAI" }

\* providerNamesOfWantToUseOption[option][0]; 'all' is the imported providerNames
FirstProviderName ==
    [smart |-> "anthropic", private |-> "ollama", cheap |-> "gemini",
     all |-> "providerNames[0]"]

\* the mount effect: a slot that is undefined gets the first provider of its category
InitEffect(slot, option) ==
    IF slot = "undefined" THEN FirstProviderName[option] ELSE slot

----------------------------------------------------------------------------
Init ==
    /\ isOnboardingComplete \in BOOLEAN
    /\ pageIndex = 0
    /\ stepperType = "signIn"
    /\ isSubmitting = InitialLocal.isSubmitting
    /\ otp = InitialLocal.otp
    /\ error = InitialLocal.error
    /\ showPassword = InitialLocal.showPassword
    /\ showConfirmPassword = InitialLocal.showConfirmPassword
    /\ wantToUseOption = "smart"
    /\ selectedIntelligentProvider = InitEffect("anthropic", "smart")
    /\ selectedPrivateProvider = InitEffect("ollama", "private")
    /\ selectedAffordableProvider = InitEffect("gemini", "cheap")
    /\ selectedAllProvider = InitEffect("anthropic", "all")
    /\ currentTab = "Free"
    /\ errorMessage = Null
    /\ errorTimeout = FALSE
    /\ chatDisabled = TRUE
    /\ addProvidersMounted = FALSE
    /\ typed = <<>>
    /\ timers = <<>>
    /\ last = [op |-> "mount", args |-> <<>>, calls |-> <<>>, captured |-> <<>>,
               late |-> FALSE, scenario |-> 0, seen |-> {}, tracked |-> 0]

----------------------------------------------------------------------------
(* Welcome screen *)

\* 'Login/Signup': setPageIndex(1)
LoginSignup ==
    /\ Active
    /\ Rendered.component = "Welcome"
    /\ Render(stepperType, 1, timers, CurrentLocal)
    /\ UNCHANGED <<isOnboardingComplete, providerState, addProvidersState, typed>>
    /\ Log("LoginSignup", <<>>, <<>>, FALSE)

----------------------------------------------------------------------------
(* LoginPage *)

LoginFormValid(email, password) ==
    /\ Required(email) /\ IsEmail(email)
    /\ Required(password) /\ MinLengthOk(password)

\* submitForm up to its await: setIsSubmitting(true), setTimeout(resolve, 1500)
LoginSubmit(email, password) ==
    /\ Active
    /\ Rendered.component = "LoginPage"
    /\ LoginFormValid(email, password)
    /\ Len(timers) < MaxTimers
    /\ Render(stepperType, pageIndex,
              Append(timers, Timer("LoginPage", NoTarget)),
              Submitting(CurrentLocal))
    /\ UNCHANGED <<isOnboardingComplete, providerState, addProvidersState, typed>>
    /\ Log("LoginSubmit", <<>>, <<"setTimeout">>, FALSE)

\* the index the older SignInPasswordPage jumped to
ForgotPasswordIndex_Three(idx) == 3

\* 'Forgot your password?': setPageType('signIn'); setPageIndex(2)
ForgotPasswordIndex(idx) == 2

ForgotPassword ==
    /\ Active
    /\ Rendered.component = "LoginPage"
    /\ Render("signIn", ForgotPasswordIndex(SetPageTypeIndex(pageIndex)), timers, CurrentLocal)
    /\ UNCHANGED <<isOnboardingComplete, providerState, addProvidersState, typed>>
    /\ Log("ForgotPassword", <<stepperType>>, <<"setPageType">>, FALSE)

\* 'Email sign-in code': setPageIndex(5)
EmailSignInCode ==
    /\ Active
    /\ Rendered.component = "LoginPage"
    /\ Render(stepperType, 5, timers, CurrentLocal)
    /\ UNCHANGED <<isOnboardingComplete, providerState, addProvidersState, typed>>
    /\ Log("EmailSignInCode", <<>>, <<>>, FALSE)

\* 'Sign up': setPageType('signUp')
SignUpLink ==
    /\ Active
    /\ Rendered.component = "LoginPage"
    /\ Render("signUp", SetPageTypeIndex(pageIndex), timers, CurrentLocal)
    /\ UNCHANGED <<isOnboardingComplete, providerState, addProvidersState, typed>>
    /\ Log("SignUpLink", <<>>, <<"setPageType">>, FALSE)

\* the eye button: setShowPassword(prev => !prev)
ToggleShowPassword ==
    /\ Active
    /\ Rendered.component \in {"LoginPage", "CreatePasswordPage"}
    /\ Render(stepperType, pageIndex, timers,
              [CurrentLocal EXCEPT !.showPassword = ~showPassword])
    /\ UNCHANGED <<isOnboardingComplete, providerState, addProvidersState, typed>>
    /\ Log("ToggleShowPassword", <<>>, <<>>, FALSE)

----------------------------------------------------------------------------
(* SignUpPage *)

SignUpFormValid(firstName, lastName, email) ==
    /\ Required(firstName) /\ MatchesNamePattern(firstName)
    /\ Required(lastName) /\ MatchesNamePattern(lastName)
    /\ Required(email) /\ IsEmail(email)

\* submitForm up to its await
SignUpSubmit(firstName, lastName, email) ==
    /\ Active
    /\ Rendered.component = "SignUpPage"
    /\ SignUpFormValid(firstName, lastName, email)
    /\ Len(timers) < MaxTimers
    /\ Render(stepperType, pageIndex,
              Append(timers, Timer("SignUpPage", Rendered.onSuccess)),
              Submitting(CurrentLocal))
    /\ UNCHANGED <<isOnboardingComplete, providerState, addProvidersState, typed>>
    /\ Log("SignUpSubmit", <<>>, <<"setTimeout">>, FALSE)

\* 'Sign in' going back to the signIn flow
SignInLink_SwitchesFlow ==
    /\ Active
    /\ Rendered.component = "SignUpPage"
    /\ Render("signIn", 1, timers, CurrentLocal)
    /\ UNCHANGED <<isOnboardingComplete, providerState, addProvidersState, typed>>
    /\ Log("SignInLink", <<>>, <<>>, FALSE)

\* 'Sign in': setPageIndex(1)
SignInLink ==
    /\ Active
    /\ Rendered.component = "SignUpPage"
    /\ Render(stepperType, 1, timers, CurrentLocal)
    /\ UNCHANGED <<isOnboardingComplete, providerState, addProvidersState, typed>>
    /\ Log("SignInLink", <<>>, <<>>, FALSE)

----------------------------------------------------------------------------
(* CreatePasswordPage *)

CreatePasswordFormValid(password, confirmPassword) ==
    /\ Required(password) /\ MinLengthOk(password)
    /\ Required(confirmPassword) /\ MinLengthOk(confirmPassword)

\* the comparison left out
PasswordsDiffer_Never(password, confirmPassword) == FALSE

\* password !== confirmPassword
PasswordsDiffer(password, confirmPassword) == password # confirmPassword

\* submitForm up to its return or its await
CreatePasswordSubmit(password, confirmPassword) ==
    /\ Active
    /\ Rendered.component = "CreatePasswordPage"
    /\ CreatePasswordFormValid(password, confirmPassword)
    /\ UNCHANGED <<isOnboardingComplete, providerState, addProvidersState, typed>>
    /\ IF PasswordsDiffer(password, confirmPassword)
       THEN /\ Render(stepperType, pageIndex, timers,
                      [CurrentLocal EXCEPT !.error = "Passwords do not match"])
            /\ Log("CreatePasswordSubmit", <<password, confirmPassword>>, <<>>, FALSE)
       ELSE /\ Len(timers) < MaxTimers
            /\ Render(stepperType, pageIndex,
                      Append(timers, Timer("CreatePasswordPage", Rendered.onSuccess)),
                      Submitting([CurrentLocal EXCEPT !.error = ""]))
            /\ Log("CreatePasswordSubmit", <<password, confirmPassword>>,
                   <<"setTimeout">>, FALSE)

\* the eye button of the confirmation: setShowConfirmPassword(prev => !prev)
ToggleShowConfirmPassword ==
    /\ Active
    /\ Rendered.component = "CreatePasswordPage"
    /\ Render(stepperType, pageIndex, timers,
              [CurrentLocal EXCEPT !.showConfirmPassword = ~showConfirmPassword])
    /\ UNCHANGED <<isOnboardingComplete, providerState, addProvidersState, typed>>
    /\ Log("ToggleShowConfirmPassword", <<>>, <<>>, FALSE)

----------------------------------------------------------------------------
(* ResetPasswordPage *)

ResetFormValid(email) == Required(email) /\ IsEmail(email)

\* submitForm up to its await
ResetPasswordSubmit(email) ==
    /\ Active
    /\ Rendered.component = "ResetPasswordPage"
    /\ ResetFormValid(email)
    /\ Len(timers) < MaxTimers
    /\ Render(stepperType, pageIndex,
              Append(timers, Timer("ResetPasswordPage", Rendered.onSuccess)),
              Submitting(CurrentLocal))
    /\ UNCHANGED <<isOnboardingComplete, providerState, addProvidersState, typed>>
    /\ Log("ResetPasswordSubmit", <<>>, <<"setTimeout">>, FALSE)

----------------------------------------------------------------------------
(* A submit the browser's constraint validation stops: onSubmit is not called *)

SubmitBlocked ==
    /\ Active
    /\ Rendered.component \in { "LoginPage", "SignUpPage", "CreatePasswordPage",
                                "ResetPasswordPage" }
    /\ CASE Rendered.component = "LoginPage" ->
               { <<email, password>> \in Emails \X Passwords :
                    ~LoginFormValid(email, password) } # {}
         [] Rendered.component = "SignUpPage" ->
               { <<firstName, lastName, email>> \in Names \X Names \X Emails :
                    ~SignUpFormValid(firstName, lastName, email) } # {}
         [] Rendered.component = "CreatePasswordPage" ->
               { <<password, confirmPassword>> \in Passwords \X Passwords :
                    ~CreatePasswordFormValid(password, confirmPassword) } # {}
         [] Rendered.component = "ResetPasswordPage" ->
               { email \in Emails : ~ResetFormValid(email) } # {}
    /\ UNCHANGED <<isOnboardingComplete, stepper, localState, providerState,
                   addProvidersState, typed, timers>>
    /\ Log("SubmitBlocked", <<>>, <<>>, FALSE)

----------------------------------------------------------------------------
(* OTPPasswordPage *)

\* the effect firing one character early
OtpComplete_Early(code) == Len(code) >= OtpLength - 1

\* the effect on [otp]: otp.length === 6
OtpComplete(code) == Len(code) = OtpLength

\* onChange={setOtp}, then the effect: onSuccess && onSuccess()
OtpChange(code) ==
    /\ Active
    /\ Rendered.component = "OTPPasswordPage"
    /\ code # otp
    /\ UNCHANGED <<isOnboardingComplete, providerState, addProvidersState, typed>>
    /\ IF OtpComplete(code)
       THEN /\ Render(stepperType, Rendered.onSuccess, timers,
                      [CurrentLocal EXCEPT !.otp = code])
            /\ Log("OtpChange", <<code>>, <<"OTPPasswordPage.onSuccess">>, FALSE)
       ELSE /\ Render(stepperType, pageIndex, timers,
                      [CurrentLocal EXCEPT !.otp = code])
            /\ Log("OtpChange", <<code>>, <<>>, FALSE)

----------------------------------------------------------------------------
(* Footer buttons *)

\* prevButton: setPageIndex(idx => idx - 1)
Back ==
    /\ Active
    /\ Rendered.bottom = "prevButton"
    /\ Render(stepperType, PrevIndex(pageIndex), timers, CurrentLocal)
    /\ UNCHANGED <<isOnboardingComplete, providerState, addProvidersState, typed>>
    /\ Log("Back", <<>>, <<>>, FALSE)

\* returnToSignInButton: setPageIndex(1)
ReturnToSignIn ==
    /\ Active
    /\ Rendered.bottom = "returnToSignInButton"
    /\ Render(stepperType, 1, timers, CurrentLocal)
    /\ UNCHANGED <<isOnboardingComplete, providerState, addProvidersState, typed>>
    /\ Log("ReturnToSignIn", <<>>, <<>>, FALSE)

\* 'Enter the Evolv': setGlobalSetting('isOnboardingComplete', true), then capture
CompletionValue == TRUE

CompleteOnboarding ==
    /\ Active
    /\ Rendered.bottom = "lastPagePrevAndNextButtons"
    /\ isOnboardingComplete' = CompletionValue
    /\ UNCHANGED <<stepper, localState, providerState, addProvidersState, typed, timers>>
    /\ Log("CompleteOnboarding", <<>>, <<"setGlobalSetting", "capture">>, FALSE)

----------------------------------------------------------------------------
(* Timers *)

\* LoginPage's continuation without its setPageIndex(6)
AfterSubmit_NoJump(t) ==
    IF t.component = "LoginPage"
    THEN Key("signIn", SetPageTypeIndex(pageIndex))
    ELSE Key(stepperType, t.onSuccess)

\* LoginPage's continuation without its setPageType('signIn')
AfterSubmit_KeepFlow(t) ==
    IF t.component = "LoginPage"
    THEN Key(stepperType, 6)
    ELSE Key(stepperType, t.onSuccess)

\* the stepper state a submission's continuation leaves: LoginPage calls
\* setPageType('signIn'); setPageIndex(6), the other pages call onSuccess()
AfterSubmit(t) ==
    IF t.component = "LoginPage"
    THEN Key("signIn", 6)
    ELSE Key(stepperType, t.onSuccess)

\* the oldest 1500 ms timer expires: the rest of submitForm runs, also when its
\* screen is no longer mounted; setIsSubmitting(false) reaches a mounted instance only
TimerFires ==
    /\ timers # <<>>
    /\ UNCHANGED <<isOnboardingComplete, providerState, addProvidersState, typed>>
    /\ LET t == Head(timers)
           to == AfterSubmit(t)
       IN  /\ Render(to[1], to[2], Tail(timers),
                     IF t.live THEN [CurrentLocal EXCEPT !.isSubmitting = FALSE]
                     ELSE CurrentLocal)
           /\ Log("TimerFires", <<t.component>>,
                  IF t.component = "LoginPage"
                  THEN <<"setPageType">>
                  ELSE <<t.component \o ".onSuccess">>,
                  ~t.live)

----------------------------------------------------------------------------
(* The settings service *)

\* the effect with its condition inverted
ResetEffectIndex_Inverted(complete, idx) == IF complete THEN 0 ELSE idx

\* the effect on [isOnboardingComplete]: if (!isOnboardingComplete) setPageIndex(0)
ResetEffectIndex(complete, idx) == IF ~complete THEN 0 ELSE idx

\* isOnboardingComplete is set back to false from outside the component
ExternalReset ==
    /\ isOnboardingComplete
    /\ isOnboardingComplete' = FALSE
    /\ Render(stepperType, ResetEffectIndex(FALSE, pageIndex), timers, CurrentLocal)
    /\ UNCHANGED <<providerState, addProvidersState, typed>>
    /\ Log("ExternalReset", <<pageIndex>>, <<>>, FALSE)

----------------------------------------------------------------------------
(* AddProvidersPage: a component of this file that neither table renders. Its parent
   gives it pageIndex and setPageIndex, and may unmount it when pageIndex changes *)

\* the page indices the model gives to AddProvidersPage and lets it reach
MaxProviderIndex == 3

AddProvidersInit ==
    /\ isOnboardingComplete = FALSE
    /\ pageIndex \in 0..MaxProviderIndex
    /\ stepperType = "signIn"
    /\ isSubmitting = InitialLocal.isSubmitting
    /\ otp = InitialLocal.otp
    /\ error = InitialLocal.error
    /\ showPassword = InitialLocal.showPassword
    /\ showConfirmPassword = InitialLocal.showConfirmPassword
    /\ wantToUseOption = "smart"
    /\ selectedIntelligentProvider = InitEffect("anthropic", "smart")
    /\ selectedPrivateProvider = InitEffect("ollama", "private")
    /\ selectedAffordableProvider = InitEffect("gemini", "cheap")
    /\ selectedAllProvider = InitEffect("anthropic", "all")
    /\ currentTab = "Free"
    /\ errorMessage = Null
    /\ errorTimeout = FALSE
    /\ chatDisabled \in BOOLEAN
    /\ addProvidersMounted = TRUE
    /\ typed = <<>>
    /\ timers = <<>>
    /\ last = [op |-> "mount", args |-> <<>>, calls |-> <<>>, captured |-> <<>>,
               late |-> FALSE, scenario |-> 0, seen |-> {}, tracked |-> 0]

AddProvidersFrame ==
    UNCHANGED <<isOnboardingComplete, stepperType, localState, providerState, timers,
                typed>>

\* the effect on [errorMessage]: its cleanup clears the pending timeout, and a message
\* that is not null starts a new one
ErrorEffect(message) == message # Null

\* the component leaves the tree: the cleanup clears the timeout, its state is dropped
AddProvidersGone ==
    /\ addProvidersMounted' = FALSE
    /\ currentTab' = "Free"
    /\ errorMessage' = Null
    /\ errorTimeout' = FALSE

\* the gate left out
isDisabled_Never == FALSE

\* const isDisabled = isFeatureNameDisabled('Chat', settingsState)
isDisabled == chatDisabled

\* the onClick given to NextButton, which is also its onDoubleClick
AddProvidersNextHandler(name) ==
    /\ addProvidersMounted
    /\ ~isDisabled => pageIndex < MaxProviderIndex
    /\ IF ~isDisabled
       THEN /\ pageIndex' = pageIndex + 1
            /\ \/ /\ errorMessage' = Null
                  /\ errorTimeout' = (IF errorMessage' # errorMessage
                                      THEN ErrorEffect(errorMessage') ELSE errorTimeout)
                  /\ UNCHANGED <<currentTab, addProvidersMounted>>
               \/ AddProvidersGone
       ELSE /\ errorMessage' = ChatErrorMessage
            /\ errorTimeout' = (IF errorMessage' # errorMessage
                                THEN ErrorEffect(errorMessage') ELSE errorTimeout)
            /\ UNCHANGED <<pageIndex, currentTab, addProvidersMounted>>
    /\ UNCHANGED chatDisabled
    /\ AddProvidersFrame
    /\ Log(name, <<IF chatDisabled THEN "disabled" ELSE "enabled">>, <<>>, FALSE)

\* NextButton onClick (it gets no disabled prop)
AddProvidersNext == AddProvidersNextHandler("AddProvidersNext")

\* NextButton onDoubleClick={onClick}
AddProvidersNextDoubleClick == AddProvidersNextHandler("AddProvidersNextDoubleClick")

\* PreviousButton: setPageIndex(pageIndex - 1)
AddProvidersPrevious ==
    /\ addProvidersMounted
    /\ pageIndex > -MaxProviderIndex
    /\ pageIndex' = pageIndex - 1
    /\ \/ UNCHANGED <<currentTab, errorMessage, errorTimeout, addProvidersMounted>>
       \/ AddProvidersGone
    /\ UNCHANGED chatDisabled
    /\ AddProvidersFrame
    /\ Log("AddProvidersPrevious", <<>>, <<>>, FALSE)

\* a tab button: setCurrentTab(tab); setErrorMessage(null)
AddProvidersSetTab(tab) ==
    /\ addProvidersMounted
    /\ currentTab' = tab
    /\ errorMessage' = Null
    /\ errorTimeout' = (IF errorMessage' # errorMessage
                        THEN ErrorEffect(errorMessage') ELSE errorTimeout)
    /\ UNCHANGED <<pageIndex, chatDisabled, addProvidersMounted>>
    /\ AddProvidersFrame
    /\ Log("AddProvidersSetTab", <<tab>>, <<>>, FALSE)

\* the 5000 ms timeout expires: setErrorMessage(null)
ErrorTimeoutFires ==
    /\ addProvidersMounted
    /\ errorTimeout
    /\ errorMessage' = Null
    /\ errorTimeout' = ErrorEffect(errorMessage')
    /\ UNCHANGED <<pageIndex, currentTab, chatDisabled, addProvidersMounted>>
    /\ AddProvidersFrame
    /\ Log("ErrorTimeoutFires", <<>>, <<>>, FALSE)

\* the parent stops rendering the component
AddProvidersUnmount ==
    /\ addProvidersMounted
    /\ AddProvidersGone
    /\ UNCHANGED <<pageIndex, chatDisabled>>
    /\ AddProvidersFrame
    /\ Log("AddProvidersUnmount", <<>>, <<>>, FALSE)

\* the parent renders a new instance
AddProvidersMount ==
    /\ ~addProvidersMounted
    /\ addProvidersMounted' = TRUE
    /\ UNCHANGED <<pageIndex, currentTab, errorMessage, errorTimeout, chatDisabled>>
    /\ AddProvidersFrame
    /\ Log("AddProvidersMount", <<>>, <<>>, FALSE)

\* the settings change: a Chat model is set up, or the last one is removed
ChatSettingChanges ==
    /\ chatDisabled' = ~chatDisabled
    /\ UNCHANGED <<pageIndex, currentTab, errorMessage, errorTimeout, addProvidersMounted>>
    /\ AddProvidersFrame
    /\ Log("ChatSettingChanges", <<>>, <<>>, FALSE)

AddProvidersNextRelation ==
    \/ AddProvidersNext
    \/ AddProvidersNextDoubleClick
    \/ AddProvidersPrevious
    \/ \E tab \in TabNames : AddProvidersSetTab(tab)
    \/ ErrorTimeoutFires
    \/ AddProvidersUnmount
    \/ AddProvidersMount
    \/ ChatSettingChanges

AddProvidersSpec == AddProvidersInit /\ [][AddProvidersNextRelation]_vars

----------------------------------------------------------------------------
(* The older version of the component (src/unnamed/part_000): sparse tables, no forms
   handlers and no timers; its buttons call the stepper setters directly *)

OldStartingPoint ==
    (0 :> Page("Welcome", NoTarget, "none")) @@
    (1 :> Page("LoginPage", NoTarget, "none"))

OldSignInStepperFlow ==
    OldStartingPoint @@
    (2 :> Page("SignInPasswordPage", NoTarget, "prevButton")) @@
    (3 :> Page("ResetPasswordPage", NoTarget, "prevButton")) @@
    (4 :> Page("CreatePasswordPage", NoTarget, "prevButton")) @@
    (5 :> Page("ConfirmEmailPasswordPage", NoTarget, "returnToSignInButton"))

OldSignUpStepperFlow ==
    OldStartingPoint @@
    (2 :> Page("SignUpPage", NoTarget, "prevButton")) @@
    (3 :> Page("CreatePasswordPage", NoTarget, "prevButton")) @@
    (4 :> Page("ConfirmEmailPasswordPage", NoTarget, "prevButton")) @@
    (9 :> Page("LastStep", NoTarget, "lastPagePrevAndNextButtons"))

OldFlowTable(flow) == IF flow = "signIn" THEN OldSignInStepperFlow ELSE OldSignUpStepperFlow

OldLookup(flow, idx) ==
    IF idx \in DOMAIN OldFlowTable(flow) THEN OldFlowTable(flow)[idx] ELSE Undefined

OldRendered == OldLookup(stepperType, pageIndex)

\* the screens of the older version that have an enabled text input
OldInputScreens ==
    { "LoginPage", "SignInPasswordPage", "SignUpPage", "CreatePasswordPage",
      "ResetPasswordPage" }

\* what a user can type into it
OldTexts == Emails \cup Passwords

\* a change of the key remounts the screen: the text of its input is gone
OldRender(flow, idx) ==
    /\ stepperType' = flow
    /\ pageIndex' = idx
    /\ typed' = IF Key(flow, idx) = Key(stepperType, pageIndex) THEN typed ELSE <<>>
    /\ UNCHANGED <<localState, providerState, addProvidersState, timers>>

OldInit == Init

OldLoginSignup ==
    /\ Active
    /\ OldRendered.component = "Welcome"
    /\ OldRender(stepperType, 1)
    /\ UNCHANGED isOnboardingComplete
    /\ Log("LoginSignup", <<>>, <<>>, FALSE)

\* the first enabled input of the screen, uncontrolled
OldType(value) ==
    /\ Active
    /\ OldRendered.component \in OldInputScreens
    /\ value # typed
    /\ typed' = value
    /\ UNCHANGED <<isOnboardingComplete, stepper, localState, providerState,
                   addProvidersState, timers>>
    /\ Log("Type", <<>>, <<>>, FALSE)

\* LoginPage 'Continue': setPageType('signIn')
OldContinue ==
    /\ Active
    /\ OldRendered.component = "LoginPage"
    /\ OldRender("signIn", SetPageTypeIndex(pageIndex))
    /\ UNCHANGED isOnboardingComplete
    /\ Log("Continue", <<>>, <<"setPageType">>, FALSE)

\* LoginPage 'Sign up': setPageType('signUp')
OldSignUpLink ==
    /\ Active
    /\ OldRendered.component = "LoginPage"
    /\ OldRender("signUp", SetPageTypeIndex(pageIndex))
    /\ UNCHANGED isOnboardingComplete
    /\ Log("SignUpLink", <<>>, <<"setPageType">>, FALSE)

\* SignInPasswordPage 'Forgot your password?': setPageIndex(3)
OldForgotPassword ==
    /\ Active
    /\ OldRendered.component = "SignInPasswordPage"
    /\ OldRender(stepperType, 3)
    /\ UNCHANGED isOnboardingComplete
    /\ Log("ForgotPassword", <<>>, <<>>, FALSE)

\* SignInPasswordPage 'Email sign-in code': setPageIndex(5)
OldEmailSignInCode ==
    /\ Active
    /\ OldRendered.component = "SignInPasswordPage"
    /\ OldRender(stepperType, 5)
    /\ UNCHANGED isOnboardingComplete
    /\ Log("EmailSignInCode", <<>>, <<>>, FALSE)

\* 'Continue' of SignUpPage and of CreatePasswordPage: setPageIndex(pageIndex + 1)
OldFormContinue ==
    /\ Active
    /\ OldRendered.component \in { "SignUpPage", "CreatePasswordPage" }
    /\ OldRender(stepperType, pageIndex + 1)
    /\ UNCHANGED isOnboardingComplete
    /\ Log("FormContinue", <<OldRendered.component>>, <<>>, FALSE)

\* prevButton: setPageIndex(idx => idx - 1)
OldBack ==
    /\ Active
    /\ OldRendered.bottom = "prevButton"
    /\ OldRender(stepperType, PrevIndex(pageIndex))
    /\ UNCHANGED isOnboardingComplete
    /\ Log("Back", <<>>, <<>>, FALSE)

\* returnToSignInButton: setStep(2)
OldReturnToSignIn ==
    /\ Active
    /\ OldRendered.bottom = "returnToSignInButton"
    /\ OldRender(stepperType, 2)
    /\ UNCHANGED isOnboardingComplete
    /\ Log("ReturnToSignIn", <<>>, <<>>, FALSE)

\* the buttons of lastPagePrevAndNextButtons: PreviousButton, setPageIndex(pageIndex - 1)
OldLastPrevious ==
    /\ Active
    /\ OldRendered.bottom = "lastPagePrevAndNextButtons"
    /\ OldRender(stepperType, pageIndex - 1)
    /\ UNCHANGED isOnboardingComplete
    /\ Log("LastPrevious", <<>>, <<>>, FALSE)

\* and 'Enter the Void': setGlobalSetting('isOnboardingComplete', true), then capture
OldCompleteOnboarding ==
    /\ Active
    /\ OldRendered.bottom = "lastPagePrevAndNextButtons"
    /\ isOnboardingComplete' = CompletionValue
    /\ UNCHANGED <<stepper, localState, providerState, addProvidersState, typed, timers>>
    /\ Log("CompleteOnboarding", <<>>, <<"setGlobalSetting", "capture">>, FALSE)

\* the flag is reset from outside: the reset effect runs setPageIndex(0)
OldExternalReset ==
    /\ isOnboardingComplete
    /\ isOnboardingComplete' = FALSE
    /\ OldRender(stepperType, ResetEffectIndex(FALSE, pageIndex))
    /\ Log("ExternalReset", <<>>, <<>>, FALSE)

\* OldLastPrevious and OldCompleteOnboarding are no disjuncts: their guard is false in
\* every state these actions reach (OldNoTerminal)
OldNext ==
    \/ OldLoginSignup
    \/ \E value \in OldTexts : OldType(value)
    \/ OldContinue
    \/ OldSignUpLink
    \/ OldForgotPassword
    \/ OldEmailSignInCode
    \/ OldFormContinue
    \/ OldBack
    \/ OldReturnToSignIn
    \/ OldExternalReset

OldSpec == OldInit /\ [][OldNext]_vars

\* a user who leaves no button untried: every button that is offered again and again is
\* pressed again and again
OldFairSpec ==
    /\ OldSpec
    /\ SF_vars(OldLoginSignup)
    /\ SF_vars(OldContinue)
    /\ SF_vars(OldSignUpLink)
    /\ SF_vars(OldForgotPassword)
    /\ SF_vars(OldEmailSignInCode)
    /\ SF_vars(OldFormContinue)
    /\ SF_vars(OldBack)
    /\ SF_vars(OldReturnToSignIn)
    /\ SF_vars(OldExternalReset)

----------------------------------------------------------------------------
(* The setters of the provider selection; no screen of the two tables calls them *)

\* the slot of the 'smart' category written whatever the category is
setSelectedProvider_Intelligent(provider) ==
    /\ selectedIntelligentProvider' = provider
    /\ UNCHANGED <<wantToUseOption, selectedPrivateProvider, selectedAffordableProvider,
                   selectedAllProvider>>
    /\ UNCHANGED <<isOnboardingComplete, stepper, localState, timers,
                   addProvidersState, typed>>
    /\ Log("setSelectedProvider", <<provider>>, <<>>, FALSE)

setSelectedProvider(provider) ==
    /\ CASE wantToUseOption = "smart" ->
               /\ selectedIntelligentProvider' = provider
               /\ UNCHANGED <<selectedPrivateProvider, selectedAffordableProvider,
                              selectedAllProvider>>
         [] wantToUseOption = "private" ->
               /\ selectedPrivateProvider' = provider
               /\ UNCHANGED <<selectedIntelligentProvider, selectedAffordableProvider,
                              selectedAllProvider>>
         [] wantToUseOption = "cheap" ->
               /\ selectedAffordableProvider' = provider
               /\ UNCHANGED <<selectedIntelligentProvider, selectedPrivateProvider,
                              selectedAllProvider>>
         [] wantToUseOption = "all" ->
               /\ selectedAllProvider' = provider
               /\ UNCHANGED <<selectedIntelligentProvider, selectedPrivateProvider,
                              selectedAffordableProvider>>
    /\ UNCHANGED <<wantToUseOption, isOnboardingComplete, stepper, localState, timers,
                   addProvidersState, typed>>
    /\ Log("setSelectedProvider", <<provider>>, <<>>, FALSE)

setWantToUseOption(option) ==
    /\ wantToUseOption' = option
    /\ UNCHANGED <<selectedIntelligentProvider, selectedPrivateProvider,
                   selectedAffordableProvider, selectedAllProvider>>
    /\ UNCHANGED <<isOnboardingComplete, stepper, localState, timers,
                   addProvidersState, typed>>
    /\ Log("setWantToUseOption", <<option>>, <<>>, FALSE)

ProviderNext ==
    \/ \E provider \in ProviderNames : setSelectedProvider(provider)
    \/ \E option \in WantToUseOptions : setWantToUseOption(option)

\* the provider selection under every order of calls of its two setters
ProviderSpec == Init /\ [][ProviderNext]_vars

----------------------------------------------------------------------------
\* what the user can do on the overlay
UserNext ==
    \/ LoginSignup
    \/ \E email \in Emails, password \in Passwords : LoginSubmit(email, password)
    \/ ForgotPassword
    \/ EmailSignInCode
    \/ SignUpLink
    \/ ToggleShowPassword
    \/ \E firstName \in Names, lastName \in Names, email \in Emails :
          SignUpSubmit(firstName, lastName, email)
    \/ SignInLink
    \/ \E password \in Passwords, confirmPassword \in Passwords :
          CreatePasswordSubmit(password, confirmPassword)
    \/ ToggleShowConfirmPassword
    \/ \E email \in Emails : ResetPasswordSubmit(email)
    \/ SubmitBlocked
    \/ \E code \in OtpValues : OtpChange(code)
    \/ Back
    \/ ReturnToSignIn
    \/ CompleteOnboarding

Next ==
    \/ UserNext
    \/ TimerFires
    \/ ExternalReset

Spec == Init /\ [][Next]_vars

\* a pending setTimeout expires: the browser's event loop runs every due timer
FairSpec == Init /\ [][Next]_vars /\ WF_vars(TimerFires)

----------------------------------------------------------------------------
(* Properties *)

Range(f) == { f[i] : i \in DOMAIN f }

LiveTimers == { i \in DOMAIN timers : timers[i].live }

\* C1: from Active(signIn, 0), 'Login/Signup' leads to (signIn, 1), the credential
\* screen; a valid credential submission whose timer expires with nothing in between
\* leaves (signIn, 6), the terminal screen of the signIn table; the completion action
\* there sets the completion flag and the wizard is Hidden.
C1_SignInScenario ==
    /\ last.scenario = 1 =>
          /\ Active /\ stepperType = "signIn" /\ pageIndex = 1
          /\ Rendered.component = "LoginPage"
    /\ last.scenario = 2 =>
          /\ Active /\ stepperType = "signIn" /\ pageIndex = 1
          /\ isSubmitting /\ Len(timers) = 1
    /\ last.scenario = 3 =>
          /\ Active /\ stepperType = "signIn" /\ pageIndex = 6
          /\ Rendered = signInStepperFlow[6]
          /\ Rendered.component = "LastStep"
    /\ last.scenario = 4 =>
          /\ isOnboardingComplete /\ Hidden
          /\ stepperType = "signIn" /\ pageIndex = 6

C1_Witness == last.scenario = 4 /\ last.op = "CompleteOnboarding" /\ isOnboardingComplete

\* C2 (as stated): 'Sign up' sets flowType to signUp and leaves pageIndex unchanged, and
\* a flow switch made by a user action at a shared-prefix index preserves pageIndex.
C2_FlowSwitchPreservesIndex ==
    [][ /\ last'.op = "SignUpLink" =>
              stepperType' = "signUp" /\ pageIndex' = pageIndex
        /\ ( /\ last'.op \in {"SignUpLink", "ForgotPassword"}
             /\ stepperType' # stepperType
             /\ pageIndex \in {0, 1} ) => pageIndex' = pageIndex ]_vars

\* C2 (amended): 'Sign up', offered at index 1 only, sets flowType to signUp and
\* pageIndex to pageIndex + 1 = 2, the registration screen of the signUp table; a flow
\* switch made by a user action at a shared-prefix index advances pageIndex by one.
C2_FlowSwitchAdvancesIndex ==
    [][ /\ last'.op = "SignUpLink" =>
              /\ pageIndex = 1
              /\ stepperType' = "signUp" /\ pageIndex' = pageIndex + 1
              /\ Rendered' = signUpStepperFlow[2]
        /\ ( /\ last'.op \in {"SignUpLink", "ForgotPassword"}
             /\ stepperType' # stepperType
             /\ pageIndex \in {0, 1} ) => pageIndex' = pageIndex + 1 ]_vars

C2_Witness ==
    /\ last.op = "SignUpLink"
    /\ stepperType = "signUp" /\ pageIndex = 2
    /\ Rendered.component = "SignUpPage"

\* C3: after every handler that went through setPageType ('Sign up', 'Forgot your
\* password?', the completion of a credential submission, late or not) the pair
\* (flowType, pageIndex) has an entry in the table of the new flow.
C3_SetPageTypeLandsOnEntry ==
    "setPageType" \in Range(last.calls) =>
        /\ pageIndex \in DOMAIN FlowTable(stepperType)
        /\ Rendered # Undefined

C3_Witness ==
    /\ last.op = "TimerFires" /\ last.late
    /\ "setPageType" \in Range(last.calls)
    /\ stepperType = "signIn" /\ pageIndex = 6

\* C4: the expiry of a submission timer whose screen was left in the meantime is a
\* no-op: it changes neither flowType nor pageIndex.
C4_LateExpiryIsNoOp ==
    [][ (last'.op = "TimerFires" /\ last'.late) =>
            (stepperType' = stepperType /\ pageIndex' = pageIndex) ]_vars

\* C5: a submit made while a submission of the mounted form is in flight starts no
\* second one: the mounted form never has more than one pending timer.
C5_OneTimerPerSubmission == Cardinality(LiveTimers) <= 1

\* C6: submitting the create-password form with password different from
\* confirm-password changes neither pageIndex nor flowType nor the submitting flag,
\* starts no timer, calls nothing, and sets the error 'Passwords do not match'.
C6_MismatchAborts ==
    [][ (last'.op = "CreatePasswordSubmit" /\ last'.args[1] # last'.args[2]) =>
            /\ pageIndex' = pageIndex /\ stepperType' = stepperType
            /\ isSubmitting' = isSubmitting
            /\ timers' = timers
            /\ last'.calls = <<>>
            /\ error' = "Passwords do not match" ]_vars

C6_Witness ==
    /\ last.op = "CreatePasswordSubmit" /\ last.args[1] # last.args[2]
    /\ Rendered.component = "CreatePasswordPage"
    /\ error = "Passwords do not match"
    /\ ~isSubmitting /\ timers = <<>>

\* C7: an OTP screen calls its continuation on no code shorter than 6 characters and
\* exactly once on a code of 6 characters, on the change itself; the screen that
\* called it is left, so no mounted OTP screen holds a full code.
C7_OtpContinuation ==
    /\ (last.op = "OtpChange" /\ Len(last.args[1]) < OtpLength) => last.calls = <<>>
    /\ (last.op = "OtpChange" /\ Len(last.args[1]) = OtpLength) =>
            last.calls = <<"OTPPasswordPage.onSuccess">>
    /\ last.op # "OtpChange" => "OTPPasswordPage.onSuccess" \notin Range(last.calls)
    /\ Rendered.component = "OTPPasswordPage" => Len(otp) < OtpLength

C7_Witness ==
    /\ last.op = "OtpChange" /\ Len(last.args[1]) = OtpLength
    /\ last.calls = <<"OTPPasswordPage.onSuccess">>
    /\ stepperType = "signIn" /\ pageIndex = 4

\* C8: the completion action leaves the flag true and the wizard Hidden, and every
\* later step other than an external reset keeps the flag true and the wizard Hidden
\* (so between two external resets the flag rises at most once).
C8_HiddenUntilReset ==
    [][ /\ last'.op = "CompleteOnboarding" => (isOnboardingComplete' /\ Hidden')
        /\ (isOnboardingComplete /\ last'.op # "ExternalReset") =>
              (isOnboardingComplete' /\ Hidden') ]_vars

C8_Witness ==
    /\ isOnboardingComplete /\ Hidden
    /\ last.op = "TimerFires"

\* C9: an external reset of the flag from true to false sets pageIndex to 0 and makes
\* the wizard Active, whatever pageIndex was.
C9_ResetGoesToPageZero ==
    [][ last'.op = "ExternalReset" =>
            /\ isOnboardingComplete /\ ~isOnboardingComplete'
            /\ last'.args = <<pageIndex>>
            /\ pageIndex' = 0
            /\ Active' ]_vars

C9_Witness ==
    /\ last.op = "ExternalReset" /\ last.args[1] = 6
    /\ pageIndex = 0 /\ Active

\* C10: the terminal screen is reached in both flows, as (signIn, 6) and as
\* (signUp, 4), and on both its primary action is the completion action.
C10_TerminalInBothFlows ==
    /\ \A flow \in last.seen :
          Lookup(flow, IF flow = "signIn" THEN 6 ELSE 4).component = "LastStep"
    /\ (Active /\ Key(stepperType, pageIndex) \in {Key("signIn", 6), Key("signUp", 4)}) =>
          /\ Rendered.component = "LastStep"
          /\ stepperType \in last.seen
          /\ Rendered.bottom = "lastPagePrevAndNextButtons"
          /\ ENABLED CompleteOnboarding

C10_Witness ==
    /\ last.seen = {"signIn", "signUp"}
    /\ last.op = "CompleteOnboarding"
    /\ isOnboardingComplete

\* a step that shows the screen of (flow, idx), coming from another one
Enters(flow, idx) ==
    /\ stepperType' = flow /\ pageIndex' = idx
    /\ Key(stepperType, pageIndex) # Key(flow, idx)

\* C11: in the signIn flow every step that enters 'Create new password' (signIn, 4) is
\* the OTP screen (signIn, 3) calling its continuation on a 6-character code, and every
\* step that enters (signIn, 3) other than Back is the completion of a reset-email
\* submission.
C11_ResetStepsInOrder ==
    [][ /\ Enters("signIn", 4) =>
              /\ stepperType = "signIn" /\ pageIndex = 3
              /\ last'.op = "OtpChange"
              /\ Len(last'.args[1]) = OtpLength
              /\ last'.calls = <<"OTPPasswordPage.onSuccess">>
        /\ (Enters("signIn", 3) /\ last'.op # "Back") =>
              /\ last'.op = "TimerFires"
              /\ last'.args = <<"ResetPasswordPage">> ]_vars

\* C12: every step that enters the terminal screen of the signUp flow is an OTP-confirm
\* screen of that flow calling its continuation.
C12_SignUpTerminalAfterOtp ==
    [][ ( /\ stepperType' = "signUp"
          /\ Lookup(stepperType', pageIndex').component = "LastStep"
          /\ Key(stepperType, pageIndex) # Key(stepperType', pageIndex') ) =>
            /\ stepperType = "signUp"
            /\ Rendered.component = "OTPPasswordPage"
            /\ last'.calls = <<"OTPPasswordPage.onSuccess">> ]_vars

\* C13: every step that changes flowType or pageIndex remounts the screen: the submitting
\* flag, the OTP text, the inline password error and both show-password toggles of the
\* screen shown afterwards have their initial values.
C13_ChangeRemounts ==
    [][ Key(stepperType', pageIndex') # Key(stepperType, pageIndex) =>
            /\ isSubmitting' = FALSE
            /\ otp' = <<>>
            /\ error' = ""
            /\ showPassword' = FALSE
            /\ showConfirmPassword' = FALSE ]_vars

\* the sign-up form, submitting, was replaced by a fresh 'Create password' screen
C13_Witness ==
    /\ last.op = "TimerFires" /\ ~last.late /\ last.args = <<"SignUpPage">>
    /\ stepperType = "signUp" /\ pageIndex = 3
    /\ CurrentLocal = InitialLocal

\* C14: in every reachable state the rendered screen is the entry of pageIndex in
\* signInStepperFlow when flowType is signIn and in signUpStepperFlow when it is signUp,
\* and nothing is rendered exactly when that table has no entry for pageIndex.
C14_RenderedIsLookup ==
    /\ (stepperType = "signIn" /\ pageIndex \in DOMAIN signInStepperFlow) =>
            Rendered = signInStepperFlow[pageIndex]
    /\ (stepperType = "signUp" /\ pageIndex \in DOMAIN signUpStepperFlow) =>
            Rendered = signUpStepperFlow[pageIndex]
    /\ Rendered = Undefined <=>
            \/ stepperType = "signIn" /\ pageIndex \notin DOMAIN signInStepperFlow
            \/ stepperType = "signUp" /\ pageIndex \notin DOMAIN signUpStepperFlow

\* index 5 has an entry in the signIn table only: 'Email sign-in code' pressed in the
\* signUp flow leaves nothing rendered
C14_Witness ==
    /\ last.op = "EmailSignInCode"
    /\ stepperType = "signUp" /\ pageIndex = 5
    /\ pageIndex \in DOMAIN signInStepperFlow
    /\ Rendered = Undefined

\* C15: the wizard is Hidden exactly when the completion flag is true and Active exactly
\* when it is false, whatever pageIndex and flowType are, and a Hidden wizard takes no
\* user action; at mount the stepper state is (signIn, 0), Active when the flag is false
\* and Hidden when it is already true.
C15_HiddenIffComplete ==
    /\ Hidden <=> isOnboardingComplete
    /\ Active <=> ~isOnboardingComplete
    /\ isOnboardingComplete => ~ENABLED UserNext
    /\ last.op = "mount" =>
          /\ stepperType = "signIn" /\ pageIndex = 0
          /\ Rendered.component = "Welcome"

\* mounted with the flag already true: Hidden on (signIn, 0)
C15_Witness ==
    /\ last.op = "mount"
    /\ isOnboardingComplete /\ Hidden
    /\ stepperType = "signIn" /\ pageIndex = 0

\* C16: every invocation of the terminal screen's primary action sets the completion
\* flag to true and records exactly one 'Completed Onboarding' event, whose properties
\* are the provider stored in the slot of the current intent category and that
\* category; it is enabled on the terminal screen of either flow and leaves the stepper
\* state alone.
C16_CompletionEffects ==
    [][ /\ (Active /\ Rendered.component = "LastStep") => ENABLED CompleteOnboarding
        /\ last'.op = "CompleteOnboarding" =>
              /\ isOnboardingComplete' = TRUE
              /\ last'.calls = <<"setGlobalSetting", "capture">>
              /\ Len(last'.captured) = 1
              /\ last'.captured[1].event = "Completed Onboarding"
              /\ last'.captured[1].wantToUseOption = wantToUseOption
              /\ last'.captured[1].selectedProviderName =
                    (CASE wantToUseOption = "smart" -> selectedIntelligentProvider
                       [] wantToUseOption = "private" -> selectedPrivateProvider
                       [] wantToUseOption = "cheap" -> selectedAffordableProvider
                       [] wantToUseOption = "all" -> selectedAllProvider)
              /\ UNCHANGED <<stepper, providerState>>
        /\ last'.op # "CompleteOnboarding" => last'.captured = <<>> ]_vars

\* completed from the terminal screen of the signUp flow
C16_Witness ==
    /\ last.op = "CompleteOnboarding"
    /\ isOnboardingComplete
    /\ stepperType = "signUp" /\ pageIndex = 4
    /\ last.captured = <<[event |-> "Completed Onboarding",
                          selectedProviderName |-> "anthropic",
                          wantToUseOption |-> "smart"]>>

FormContinuations ==
    { "SignUpPage.onSuccess", "CreatePasswordPage.onSuccess", "ResetPasswordPage.onSuccess" }

\* C17: on every form screen a valid submission sets the submitting flag and invokes no
\* continuation; the flag of the screen instance is true as long as a timer of that
\* instance is pending; a continuation is invoked only by the expiry of a timer; the
\* flag of an instance that stays mounted goes back to false only in the step that
\* invoked the continuation.
C17_SubmittingUntilExpiry ==
    [][ /\ last'.calls = <<"setTimeout">> =>
              /\ isSubmitting'
              /\ Len(timers') = Len(timers) + 1
              /\ timers'[Len(timers')].live
              /\ UNCHANGED stepper
        /\ LiveTimers' # {} => isSubmitting'
        /\ Range(last'.calls) \cap FormContinuations # {} =>
              /\ last'.op = "TimerFires"
              /\ timers' = Tail(timers) \/ timers' = Orphan(Tail(timers))
        /\ ( /\ isSubmitting /\ ~isSubmitting'
              /\ Key(stepperType', pageIndex') = Key(stepperType, pageIndex) ) =>
                last'.op = "TimerFires" ]_vars

\* a reset-email submission is pending on (signIn, 2): submitting, no continuation yet
C17_Witness ==
    /\ last.op = "ResetPasswordSubmit"
    /\ stepperType = "signIn" /\ pageIndex = 2
    /\ isSubmitting
    /\ LiveTimers # {}
    /\ last.calls = <<"setTimeout">>

\* C18: a submission that passes validation starts one timer, and when timers expire it
\* eventually invokes its continuation: a pending timer leaves the queue only by
\* expiring, and its expiry invokes the continuation of its form, with no other outcome
\* and no second attempt; a submission that fails validation starts no timer.
C18_ValidSubmissionCompletes ==
    /\ [][ /\ ( \/ last'.op = "SubmitBlocked"
                 \/ /\ last'.op = "CreatePasswordSubmit"
                    /\ last'.args[1] # last'.args[2] ) =>
                  /\ timers' = timers
                  /\ last'.calls = <<>>
           /\ last'.calls = <<"setTimeout">> => Len(timers') = Len(timers) + 1
           /\ Len(timers') < Len(timers) =>
                  /\ last'.op = "TimerFires"
                  /\ Len(timers') = Len(timers) - 1
                  /\ last'.calls \in
                        { <<"setPageType">>, <<"SignUpPage.onSuccess">>,
                          <<"CreatePasswordPage.onSuccess">>,
                          <<"ResetPasswordPage.onSuccess">> }
           /\ last'.tracked <= Len(timers') ]_vars
    /\ (last.tracked > 0) ~>
            (last.tracked = 0 /\ last.op = "TimerFires" /\ last.calls # <<>>)

\* the timer of a password-creation submission expired after its screen was left
C18_Witness ==
    /\ last.op = "TimerFires"
    /\ last.args = <<"CreatePasswordPage">>
    /\ last.calls = <<"CreatePasswordPage.onSuccess">>
    /\ last.late
    /\ last.tracked = 0

\* the screens whose footer is prevButton
PrevButtonScreens ==
    { <<"signIn", 2>>, <<"signIn", 3>>, <<"signIn", 4>>, <<"signUp", 2>>, <<"signUp", 3>> }

\* C19: Back is offered on (signIn, 2), (signIn, 3), (signIn, 4), (signUp, 2) and
\* (signUp, 3); it decreases pageIndex by exactly 1 from its current value, without
\* clamping, leaves flowType unchanged and lands on an index that has an entry in the
\* table of the active flow.
C19_BackDecrements ==
    [][ /\ (Active /\ <<stepperType, pageIndex>> \in PrevButtonScreens) => ENABLED Back
        /\ last'.op = "Back" =>
              /\ <<stepperType, pageIndex>> \in PrevButtonScreens
              /\ pageIndex' = pageIndex - 1
              /\ stepperType' = stepperType
              /\ \/ stepperType' = "signIn" /\ pageIndex' \in DOMAIN signInStepperFlow
                 \/ stepperType' = "signUp" /\ pageIndex' \in DOMAIN signUpStepperFlow
              /\ Rendered' # Undefined ]_vars

\* Back from 'Create new password' (signIn, 4) shows the OTP screen (signIn, 3)
C19_Witness ==
    /\ last.op = "Back"
    /\ stepperType = "signIn" /\ pageIndex = 3
    /\ Rendered.component = "OTPPasswordPage"
    /\ Rendered.onSuccess = 4

\* C20: 'Forgot your password?' leads to (signIn, 2), the reset-email screen, whatever
\* flowType and pageIndex were: the increment of setPageType does not show in the
\* result.
C20_ForgotPasswordTarget ==
    [][ last'.op = "ForgotPassword" =>
            /\ last'.args \in { <<"signIn">>, <<"signUp">> }
            /\ stepperType' = "signIn"
            /\ pageIndex' = 2
            /\ Rendered'.component = "ResetPasswordPage" ]_vars

\* pressed on the credential screen while the signUp flow was active
C20_Witness ==
    /\ last.op = "ForgotPassword"
    /\ last.args = <<"signUp">>
    /\ stepperType = "signIn" /\ pageIndex = 2

\* the largest index of the two tables
LastIndex == 6

\* C21: pageIndex is a non-negative integer and never exceeds 6, in every state reached
\* from pageIndex 0 by user actions, timer expiries and external resets.
C21_PageIndexRange ==
    /\ pageIndex \in Nat
    /\ pageIndex <= LastIndex

\* a second credential submission expired when the first had already led to (signIn, 6)
C21_Witness ==
    /\ last.op = "TimerFires" /\ last.late /\ last.args = <<"LoginPage">>
    /\ stepperType = "signIn" /\ pageIndex = LastIndex
    /\ last.seen = {"signIn"}

\* C26: every reachable Active state has an entry for pageIndex in the table of the
\* current flowType: the screen is never blank, and some user action is enabled.
C26_NoBlankScreen ==
    Active =>
        /\ \/ stepperType = "signIn" /\ pageIndex \in DOMAIN signInStepperFlow
           \/ stepperType = "signUp" /\ pageIndex \in DOMAIN signUpStepperFlow
        /\ Rendered # Undefined
        /\ ENABLED UserNext

\* C27: flowType changes only in a handler that calls setPageType: the completion of a
\* credential submission, 'Forgot your password?' and 'Sign up'; every other action
\* leaves it unchanged.
C27_FlowChangesBySetPageType ==
    [][ /\ stepperType' # stepperType =>
              /\ last'.calls = <<"setPageType">>
              /\ \/ last'.op = "TimerFires" /\ last'.args = <<"LoginPage">>
                 \/ last'.op \in { "ForgotPassword", "SignUpLink" }
        /\ last'.op \in { "LoginSignup", "Back", "SignInLink", "EmailSignInCode",
                          "ReturnToSignIn", "OtpChange", "CompleteOnboarding",
                          "ExternalReset", "LoginSubmit", "SignUpSubmit",
                          "CreatePasswordSubmit", "ResetPasswordSubmit", "SubmitBlocked",
                          "ToggleShowPassword", "ToggleShowConfirmPassword" } =>
              stepperType' = stepperType
        /\ (last'.op = "TimerFires" /\ last'.args # <<"LoginPage">>) =>
              stepperType' = stepperType
        /\ last'.op = "SignInLink" => pageIndex' = 1
        /\ last'.op = "EmailSignInCode" => pageIndex' = 5
        /\ last'.op = "ReturnToSignIn" => pageIndex' = 1 ]_vars

\* the 'Sign in' link of the registration screen led to (signUp, 1)
C27_Witness ==
    /\ last.op = "SignInLink"
    /\ stepperType = "signUp" /\ pageIndex = 1
    /\ Rendered.component = "LoginPage"

\* C28: after an external reset of the completion flag the stepper state is the initial
\* one, Active(signIn, 0), whichever flow the completed run ended in.
C28_ResetRestoresInitial ==
    last.op = "ExternalReset" =>
        /\ Active
        /\ stepperType = "signIn"
        /\ pageIndex = 0

\* C29: the expiry of a credential submission's timer leaves (signIn, 6), whatever
\* flowType and pageIndex were, also when the credential screen was left meanwhile.
C29_LoginCompletionTarget ==
    [][ (last'.op = "TimerFires" /\ last'.args = <<"LoginPage">>) =>
            /\ stepperType' = "signIn"
            /\ pageIndex' = 6
            /\ Rendered'.component = "LastStep"
            /\ last'.calls = <<"setPageType">> ]_vars

\* a credential submission's timer expired on its own screen and led to (signIn, 6), in
\* a run that had gone through the signUp flow before
C29_Witness ==
    /\ last.op = "TimerFires" /\ last.args = <<"LoginPage">> /\ ~last.late
    /\ stepperType = "signIn" /\ pageIndex = 6
    /\ "signUp" \in last.seen

\* C30: a step that changes the completion flag from false to true is the primary action
\* of the terminal screen, taken in (signIn, 6) or (signUp, 4), and it leaves pageIndex
\* and flowType unchanged.
C30_FlagSetOnTerminalOnly ==
    [][ (~isOnboardingComplete /\ isOnboardingComplete') =>
            /\ last'.op = "CompleteOnboarding"
            /\ <<stepperType, pageIndex>> \in { <<"signIn", 6>>, <<"signUp", 4>> }
            /\ Rendered.component = "LastStep"
            /\ UNCHANGED stepper ]_vars

\* the flag was set on (signIn, 6)
C30_Witness ==
    /\ last.op = "CompleteOnboarding"
    /\ isOnboardingComplete
    /\ stepperType = "signIn" /\ pageIndex = 6

Slots ==
    [smart |-> selectedIntelligentProvider, private |-> selectedPrivateProvider,
     cheap |-> selectedAffordableProvider, all |-> selectedAllProvider]

\* C22: setSelectedProvider writes the slot of the active intent category and leaves the
\* other three slots and the category unchanged; getSelectedProvider returns the slot of
\* the active category; the slots start at anthropic, ollama, gemini, anthropic and none
\* is ever undefined.
C22_SlotsIndependent ==
    [][ /\ last.op = "mount" =>
              Slots = [smart |-> "anthropic", private |-> "ollama",
                       cheap |-> "gemini", all |-> "anthropic"]
        /\ last'.op = "setSelectedProvider" =>
              /\ wantToUseOption' = wantToUseOption
              /\ Slots' = [Slots EXCEPT ![wantToUseOption] = last'.args[1]]
              /\ getSelectedProvider' = last'.args[1]
        /\ last'.op = "setWantToUseOption" =>
              /\ Slots' = Slots
              /\ wantToUseOption' = last'.args[1]
        /\ getSelectedProvider' = Slots'[wantToUseOption']
        /\ \A option \in WantToUseOptions : Slots'[option] \in ProviderNames ]_vars

\* a provider chosen under 'private' after one chosen under 'cheap': the two other
\* slots still hold their defaults
C22_Witness ==
    /\ last.op = "setSelectedProvider" /\ last.args = <<"openAI">>
    /\ wantToUseOption = "private"
    /\ Slots = [smart |-> "anthropic", private |-> "openAI",
                cheap |-> "anthropic", all |-> "anthropic"]

\* C23: on the provider-setup screen Next with the Chat feature disabled leaves pageIndex
\* unchanged and sets the inline message; the message is cleared by its 5-second timer
\* or by a tab change; the timer is pending only while the message is shown on a mounted
\* screen, and is cancelled when the message changes or the screen unmounts; Next with
\* the Chat feature enabled sets pageIndex to pageIndex + 1 and clears the message.
C23_FeatureGate ==
    [][ /\ (last'.op = "AddProvidersNext" /\ chatDisabled) =>
              /\ pageIndex' = pageIndex
              /\ errorMessage' = ChatErrorMessage
              /\ errorTimeout'
        /\ (last'.op = "AddProvidersNext" /\ ~chatDisabled) =>
              /\ pageIndex' = pageIndex + 1
              /\ errorMessage' = Null
              /\ ~errorTimeout'
        /\ last'.op = "ErrorTimeoutFires" =>
              /\ errorMessage = ChatErrorMessage
              /\ errorMessage' = Null
              /\ ~errorTimeout'
        /\ last'.op = "AddProvidersSetTab" =>
              /\ errorMessage' = Null
              /\ ~errorTimeout'
              /\ pageIndex' = pageIndex
        /\ (errorTimeout /\ ~errorTimeout') =>
              \/ errorMessage' # errorMessage
              \/ ~addProvidersMounted'
        /\ errorTimeout' <=> (addProvidersMounted' /\ errorMessage' = ChatErrorMessage)
      ]_vars

\* Next pressed with no Chat model set up: the message is shown and its timer is pending
C23_Witness ==
    /\ last.op = "AddProvidersNext" /\ last.args = <<"disabled">>
    /\ addProvidersMounted
    /\ errorMessage = ChatErrorMessage
    /\ errorTimeout

\* C24: on the provider-setup screen a double-click on Next advances pageIndex by 1 while
\* the Chat feature is disabled.
C24_ForcedAdvance ==
    [][ (last'.op = "AddProvidersNextDoubleClick" /\ chatDisabled) =>
            pageIndex' = pageIndex + 1 ]_vars

\* the older version never shows its terminal screen, and neither button of
\* lastPagePrevAndNextButtons is ever enabled
OldNoTerminal ==
    /\ OldRendered.component # "LastStep"
    /\ pageIndex \in 0..5
    /\ ~ENABLED OldLastPrevious
    /\ ~ENABLED OldCompleteOnboarding

\* C25: in the older version the terminal settings-import screen is reached from
\* Active(signIn, 0) by user actions, in the signIn flow and in the signUp flow, so that
\* the completion action can fire.
C25_TerminalReached ==
    <>( /\ Active
        /\ OldRendered.component = "LastStep"
        /\ ENABLED OldCompleteOnboarding )
====
